---- MODULE Spec2Model ----
(***************************************************************************)
(* Model of the BD18378 LED driver (src/src/lib.rs, src/src/registers.rs). *)
(* The controller owns an SPI device; every operation is one atomic action *)
(* that performs all of its bus transfers.  The bus is the environment:    *)
(* each transfer either fails at the transport level or returns two reply  *)
(* bytes chosen by the bus.                                                *)
(***************************************************************************)
EXTENDS Integers, Sequences, FiniteSets, TLC

VARIABLES
    is_initialized,   \* Bd18378::is_initialized
    channel_enable,   \* Bd18378::channel_enable, indexed 0..11
    was_initialized,  \* is_initialized when the last operation was called
    op,               \* the last operation called ("new" right after construction)
    arg,              \* its channel argument (NoArg when it takes none; the
                      \* pair <<ch, value>> for set_channel_calibration)
    result,           \* what it returned
    wire,             \* the [address, value] pairs it sent, in order
    bus,              \* the bus response to each of them, in order
    hw                \* the device's two channel-enable registers: the last
                      \* value written to each, <<>> before any write
                      \* (followed under SpecDevice only)

vars == <<is_initialized, channel_enable, was_initialized, op, arg, result,
          wire, bus, hw>>

-----------------------------------------------------------------------------
(* Constants of the source *)

CHANNELS_PER_REGISTER == 6
CHANNELS_PER_IC == 12

\* mutant of ChannelCalibration00: the address of the next register
ChannelCalibration00_shifted == \H49

\* registers.rs: WriteRegister addresses
ChannelCalibration00 == \H48
ChannelEnable00To05 == \H56

\* mutant of ChannelEnable06To11: the address of the first group register
ChannelEnable06To11_first_group == \H56

ChannelEnable06To11 == \H57
StatusReset == \H6B
SoftwareReset == \H6C
Reserved79 == \H79
Reserved7A == \H7A
Reserved7B == \H7B
ReservedB5 == \HB5
ReservedB6 == \HB6
ReservedB7 == \HB7
ReservedB8 == \HB8
ReservedB9 == \HB9

\* registers.rs: the enum WriteRegister, each variant with its `as u8` value
WriteRegister ==
    [ ChannelCalibration00 |-> ChannelCalibration00,
      ChannelCalibration01 |-> \H49,
      ChannelCalibration02 |-> \H4A,
      ChannelCalibration03 |-> \H4B,
      ChannelCalibration04 |-> \H4C,
      ChannelCalibration05 |-> \H4D,
      ChannelCalibration06 |-> \H4E,
      ChannelCalibration07 |-> \H4F,
      ChannelCalibration08 |-> \H50,
      ChannelCalibration09 |-> \H51,
      ChannelCalibration10 |-> \H52,
      ChannelCalibration11 |-> \H53,
      ChannelEnable00To05 |-> ChannelEnable00To05,
      ChannelEnable06To11 |-> ChannelEnable06To11,
      StatusReset |-> StatusReset,
      SoftwareReset |-> SoftwareReset,
      Reserved79 |-> Reserved79,
      Reserved7A |-> Reserved7A,
      Reserved7B |-> Reserved7B,
      ReservedB5 |-> ReservedB5,
      ReservedB6 |-> ReservedB6,
      ReservedB7 |-> ReservedB7,
      ReservedB8 |-> ReservedB8,
      ReservedB9 |-> ReservedB9 ]

\* value written by reset_status_register, 0b0011_1111
STATUS_RESET_VALUE == \H3F

-----------------------------------------------------------------------------
(* Bounds of the model *)

\* largest channel argument passed to enable_channel / disable_channel
MaxCh == 13

NoArg == "none"

\* channel arguments tried: both ends and the middle of each register group,
\* and the out-of-range indices CHANNELS_PER_IC..MaxCh
ChannelArgs == {0, 4, 6, 10, 11} \cup (CHANNELS_PER_IC..MaxCh)

-----------------------------------------------------------------------------
(* The bus: SpiDevice::transfer_in_place *)

BusFailure == [ok |-> FALSE, data |-> <<0, 0>>]

\* What the bus may answer to a transfer of `sent` that follows a transfer of
\* `prev`: a transport failure, a line stuck low or high, the echo of the
\* previous transfer (what the device does) or the echo of this very transfer.
BusResponses(sent, prev) ==
    {BusFailure} \cup
    {[ok |-> TRUE, data |-> d] : d \in {<<0, 0>>, <<\HFF, \HFF>>, sent, prev}}

-----------------------------------------------------------------------------
(* Construction *)

Channels == 0..(CHANNELS_PER_IC - 1)

\* the addresses at which the device keeps its two channel-enable registers
DeviceEnableRegisters == {\H56, \H57}

\* mutant of new: the flag starts set
new_initialized ==
    [is_initialized |-> TRUE,
     channel_enable |-> [c \in 0..(CHANNELS_PER_IC - 1) |-> FALSE]]

new == [is_initialized |-> FALSE,
        channel_enable |-> [c \in Channels |-> FALSE]]

Init ==
    /\ is_initialized = new.is_initialized
    /\ channel_enable = new.channel_enable
    /\ was_initialized = FALSE
    /\ op = "new"
    /\ arg = NoArg
    /\ result = "Ok"
    /\ wire = <<>>
    /\ bus = <<>>
    /\ hw = [a \in DeviceEnableRegisters |-> <<>>]

-----------------------------------------------------------------------------
(* Private helpers *)

\* mutant of write_register: the transport result is not looked at
write_register_unchecked(register, value, resp) ==
    [err |-> "Ok", data |-> resp.data]

\* write_register: one transfer of [register, value]; the reply bytes on
\* transport success, BusError otherwise.
write_register(register, value, resp) ==
    IF resp.ok
    THEN [err |-> "Ok", data |-> resp.data]
    ELSE [err |-> "BusError", data |-> <<0, 0>>]

\* reset_status_register: writes 0b0011_1111 to StatusReset, reply dropped.
reset_status_register(resp) ==
    LET w == write_register(StatusReset, STATUS_RESET_VALUE, resp)
    IN  [err |-> w.err]

\* mutant of check_initialized: the flag is not looked at
check_initialized_skipped(flag) ==
    "Ok"

check_initialized(flag) ==
    IF ~flag THEN "NotInitialized" ELSE "Ok"

\* mutant of get_init_sequence: the third and fourth writes swapped
get_init_sequence_swapped ==
    << <<SoftwareReset, \HA1>>,
       <<SoftwareReset, \HA1>>,
       <<ReservedB6, \H00>>,
       <<ReservedB5, \H9E>>,
       <<ReservedB5, \H9E>>,
       <<ReservedB7, \H00>>,
       <<ReservedB5, \H9E>>,
       <<ReservedB8, \H00>>,
       <<ReservedB5, \H9E>>,
       <<ReservedB9, \H00>>,
       <<Reserved79, \HD6>>,
       <<Reserved7A, \H00>>,
       <<Reserved79, \HD6>>,
       <<Reserved7B, \H00>>,
       <<SoftwareReset, \HA1>> >>

get_init_sequence ==
    << <<SoftwareReset, \HA1>>,
       <<SoftwareReset, \HA1>>,
       <<ReservedB5, \H9E>>,
       <<ReservedB6, \H00>>,
       <<ReservedB5, \H9E>>,
       <<ReservedB7, \H00>>,
       <<ReservedB5, \H9E>>,
       <<ReservedB8, \H00>>,
       <<ReservedB5, \H9E>>,
       <<ReservedB9, \H00>>,
       <<Reserved79, \HD6>>,
       <<Reserved7A, \H00>>,
       <<Reserved79, \HD6>>,
       <<Reserved7B, \H00>>,
       <<SoftwareReset, \HA1>> >>

-----------------------------------------------------------------------------
(* init *)

\* One execution of a handler: what it returned, what it sent, what the bus
\* answered, and whether it reached `self.is_initialized = true`.
Run(res, w, b, done) ==
    [result |-> res, wire |-> w, bus |-> b, completed |-> done]

\* mutant of ReplyRejected: only the value byte of the reply is compared
ReplyRejected_value_only(first, data, old_data) ==
    ~first /\ data[2] # old_data[2]

\* mutant of ReplyRejected: the first reply is checked too
ReplyRejected_first_too(first, data, old_data) ==
    data # old_data

\* lib.rs:75, the echo check of the loop body
ReplyRejected(first, data, old_data) ==
    ~first /\ data # old_data

\* mutant of InitFinish: the reply to the status-reset write must echo the
\* last handshake write
InitFinish_validated(old_data, w, b) ==
    LET sent == <<StatusReset, STATUS_RESET_VALUE>>
    IN  { LET r == write_register(sent[1], sent[2], resp)
          IN  IF r.err # "Ok"
              THEN Run(r.err, Append(w, sent), Append(b, resp), FALSE)
              ELSE IF r.data # old_data
              THEN Run("CommunicationError", Append(w, sent), Append(b, resp),
                       FALSE)
              ELSE Run("Ok", Append(w, sent), Append(b, resp), TRUE)
        : resp \in BusResponses(sent, old_data) }

\* lib.rs:82-84, after the loop
InitFinish(old_data, w, b) ==
    LET sent == <<StatusReset, STATUS_RESET_VALUE>>
    IN  { LET r == reset_status_register(resp)
          IN  IF r.err # "Ok"
              THEN Run(r.err, Append(w, sent), Append(b, resp), FALSE)
              ELSE Run("Ok", Append(w, sent), Append(b, resp), TRUE)
        : resp \in BusResponses(sent, old_data) }

\* lib.rs:70-80, the loop from its i-th iteration on, for every bus behaviour
RECURSIVE InitLoop(_, _, _, _, _)
InitLoop(i, first, old_data, w, b) ==
    LET seq == get_init_sequence
    IN  IF i > Len(seq)
        THEN InitFinish(old_data, w, b)
        ELSE LET reg == seq[i][1]
                 value == seq[i][2]
                 sent == <<reg, value>>
             IN  UNION { LET data == write_register(reg, value, resp)
                             w2 == Append(w, sent)
                             b2 == Append(b, resp)
                         IN  IF data.err # "Ok"
                             THEN {Run(data.err, w2, b2, FALSE)}
                             ELSE IF ReplyRejected(first, data.data, old_data)
                             THEN {Run("CommunicationError", w2, b2, FALSE)}
                             ELSE InitLoop(i + 1, FALSE, sent, w2, b2)
                       : resp \in BusResponses(sent, old_data) }

\* every execution of init(), lib.rs:67-69 being the loop's initial values
InitRuns == InitLoop(1, TRUE, <<\H00, \H00>>, <<>>, <<>>)

\* mutant of InitFlag: the flag is set before reset_status_register is called
InitFlag_early(run, flag) ==
    IF run.completed \/ Len(run.wire) > Len(get_init_sequence) THEN TRUE ELSE flag

\* mutant of InitFlag: a failed call clears the flag
InitFlag_cleared(run, flag) ==
    run.completed

\* is_initialized after an execution of init(): lib.rs:83 is its only
\* assignment, reached when nothing returned early
InitFlag(run, flag) ==
    IF run.completed THEN TRUE ELSE flag

\* mutant of init: the channel array is cleared as the software reset clears
\* the device
init_clears_channels ==
    \E run \in InitRuns :
        /\ is_initialized' = InitFlag(run, is_initialized)
        /\ channel_enable' = new.channel_enable
        /\ was_initialized' = is_initialized
        /\ op' = "init"
        /\ arg' = NoArg
        /\ result' = run.result
        /\ wire' = run.wire
        /\ bus' = run.bus

init ==
    \E run \in InitRuns :
        /\ is_initialized' = InitFlag(run, is_initialized)
        /\ UNCHANGED channel_enable
        /\ was_initialized' = is_initialized
        /\ op' = "init"
        /\ arg' = NoArg
        /\ result' = run.result
        /\ wire' = run.wire
        /\ bus' = run.bus

-----------------------------------------------------------------------------
(* is_initialized() *)

IsInitialized ==
    /\ was_initialized' = is_initialized
    /\ op' = "is_initialized"
    /\ arg' = NoArg
    /\ result' = (IF is_initialized THEN "true" ELSE "false")
    /\ wire' = <<>>
    /\ bus' = <<>>
    /\ UNCHANGED <<is_initialized, channel_enable>>

-----------------------------------------------------------------------------
(* enable_channel / disable_channel *)

\* mutant of SetChannel: the initialization check comes first
SetChannel_state_first(ch, to) ==
    IF check_initialized(is_initialized) # "Ok"
    THEN [err |-> check_initialized(is_initialized),
          channel_enable |-> channel_enable]
    ELSE IF ch >= CHANNELS_PER_IC
    THEN [err |-> "InvalidChannel", channel_enable |-> channel_enable]
    ELSE [err |-> "Ok",
          channel_enable |-> [channel_enable EXCEPT ![ch] = to]]

\* mutant of SetChannel: the channel is written before the initialization check
SetChannel_write_first(ch, to) ==
    IF ch >= CHANNELS_PER_IC
    THEN [err |-> "InvalidChannel", channel_enable |-> channel_enable]
    ELSE [err |-> check_initialized(is_initialized),
          channel_enable |-> [channel_enable EXCEPT ![ch] = to]]

\* mutant of SetChannel: disable_channel stores true as enable_channel does
SetChannel_always_true(ch, to) ==
    IF ch >= CHANNELS_PER_IC
    THEN [err |-> "InvalidChannel", channel_enable |-> channel_enable]
    ELSE IF check_initialized(is_initialized) # "Ok"
    THEN [err |-> check_initialized(is_initialized),
          channel_enable |-> channel_enable]
    ELSE [err |-> "Ok",
          channel_enable |-> [channel_enable EXCEPT ![ch] = TRUE]]

\* mutant of SetChannel: the channel is toggled
SetChannel_toggle(ch, to) ==
    IF ch >= CHANNELS_PER_IC
    THEN [err |-> "InvalidChannel", channel_enable |-> channel_enable]
    ELSE IF check_initialized(is_initialized) # "Ok"
    THEN [err |-> check_initialized(is_initialized),
          channel_enable |-> channel_enable]
    ELSE [err |-> "Ok",
          channel_enable |-> [channel_enable EXCEPT ![ch] = ~@]]

\* the outcome of enable_channel(ch) (to = TRUE) and of disable_channel(ch)
\* (to = FALSE): the error returned and the channel array afterwards
SetChannel(ch, to) ==
    IF ch >= CHANNELS_PER_IC
    THEN [err |-> "InvalidChannel", channel_enable |-> channel_enable]
    ELSE IF check_initialized(is_initialized) # "Ok"
    THEN [err |-> check_initialized(is_initialized),
          channel_enable |-> channel_enable]
    ELSE [err |-> "Ok",
          channel_enable |-> [channel_enable EXCEPT ![ch] = to]]

enable_channel ==
    \E ch \in ChannelArgs :
        LET r == SetChannel(ch, TRUE)
        IN  /\ channel_enable' = r.channel_enable
            /\ was_initialized' = is_initialized
            /\ op' = "enable_channel"
            /\ arg' = ch
            /\ result' = r.err
            /\ wire' = <<>>
            /\ bus' = <<>>
            /\ UNCHANGED is_initialized

disable_channel ==
    \E ch \in ChannelArgs :
        LET r == SetChannel(ch, FALSE)
        IN  /\ channel_enable' = r.channel_enable
            /\ was_initialized' = is_initialized
            /\ op' = "disable_channel"
            /\ arg' = ch
            /\ result' = r.err
            /\ wire' = <<>>
            /\ bus' = <<>>
            /\ UNCHANGED is_initialized

-----------------------------------------------------------------------------
(* update_all_channels *)

\* mutant of OrBit: the shift is one too far
OrBit_off_by_one(v, k) ==
    IF (v \div 2^(k + 1)) % 2 = 1 THEN v ELSE (v + 2^(k + 1)) % 256

\* group_value |= 1 << k on a u8
OrBit(v, k) ==
    IF (v \div 2^k) % 2 = 1 THEN v ELSE (v + 2^k) % 256

\* compute_channel_group_value: the loop `for ch in start..end`
RECURSIVE compute_channel_group_value(_, _, _, _)
compute_channel_group_value(ce, start, end, offset) ==
    IF start >= end
    THEN 0
    ELSE LET rest == compute_channel_group_value(ce, start, end - 1, offset)
             ch == end - 1
         IN  IF ce[ch] THEN OrBit(rest, ch - offset) ELSE rest

\* mutant of UpdateRuns: the result of the first write is dropped
UpdateRuns_no_abort(ce) ==
    LET first_group_value ==
            compute_channel_group_value(ce, 0, CHANNELS_PER_REGISTER, 0)
        second_group_value ==
            compute_channel_group_value(ce, CHANNELS_PER_REGISTER,
                                        CHANNELS_PER_IC, CHANNELS_PER_REGISTER)
        sent1 == <<ChannelEnable00To05, first_group_value>>
        sent2 == <<ChannelEnable06To11, second_group_value>>
    IN  UNION { { LET w2 == write_register(sent2[1], sent2[2], r2)
                  IN  IF w2.err # "Ok"
                      THEN Run(w2.err, <<sent1, sent2>>, <<r1, r2>>, FALSE)
                      ELSE Run("Ok", <<sent1, sent2>>, <<r1, r2>>, TRUE)
                : r2 \in BusResponses(sent2, sent1) }
              : r1 \in BusResponses(sent1, <<\H00, \H00>>) }

\* mutant of UpdateRuns: the reply to the second write must echo the first
\* write, as in the loop of init()
UpdateRuns_validated(ce) ==
    LET first_group_value ==
            compute_channel_group_value(ce, 0, CHANNELS_PER_REGISTER, 0)
        second_group_value ==
            compute_channel_group_value(ce, CHANNELS_PER_REGISTER,
                                        CHANNELS_PER_IC, CHANNELS_PER_REGISTER)
        sent1 == <<ChannelEnable00To05, first_group_value>>
        sent2 == <<ChannelEnable06To11, second_group_value>>
    IN  UNION { LET w1 == write_register(sent1[1], sent1[2], r1)
                IN  IF w1.err # "Ok"
                    THEN {Run(w1.err, <<sent1>>, <<r1>>, FALSE)}
                    ELSE { LET w2 == write_register(sent2[1], sent2[2], r2)
                           IN  IF w2.err # "Ok"
                               THEN Run(w2.err, <<sent1, sent2>>, <<r1, r2>>, FALSE)
                               ELSE IF w2.data # sent1
                               THEN Run("CommunicationError", <<sent1, sent2>>,
                                        <<r1, r2>>, FALSE)
                               ELSE Run("Ok", <<sent1, sent2>>, <<r1, r2>>, TRUE)
                         : r2 \in BusResponses(sent2, sent1) }
              : r1 \in BusResponses(sent1, <<\H00, \H00>>) }

\* every execution of update_all_channels() past check_initialized
UpdateRuns(ce) ==
    LET first_group_value ==
            compute_channel_group_value(ce, 0, CHANNELS_PER_REGISTER, 0)
        second_group_value ==
            compute_channel_group_value(ce, CHANNELS_PER_REGISTER,
                                        CHANNELS_PER_IC, CHANNELS_PER_REGISTER)
        sent1 == <<ChannelEnable00To05, first_group_value>>
        sent2 == <<ChannelEnable06To11, second_group_value>>
    IN  UNION { LET w1 == write_register(sent1[1], sent1[2], r1)
                IN  IF w1.err # "Ok"
                    THEN {Run(w1.err, <<sent1>>, <<r1>>, FALSE)}
                    ELSE { LET w2 == write_register(sent2[1], sent2[2], r2)
                           IN  IF w2.err # "Ok"
                               THEN Run(w2.err, <<sent1, sent2>>, <<r1, r2>>, FALSE)
                               ELSE Run("Ok", <<sent1, sent2>>, <<r1, r2>>, TRUE)
                         : r2 \in BusResponses(sent2, sent1) }
              : r1 \in BusResponses(sent1, <<\H00, \H00>>) }

update_all_channels ==
    /\ was_initialized' = is_initialized
    /\ op' = "update_all_channels"
    /\ arg' = NoArg
    /\ UNCHANGED <<is_initialized, channel_enable>>
    /\ IF check_initialized(is_initialized) # "Ok"
       THEN /\ result' = check_initialized(is_initialized)
            /\ wire' = <<>>
            /\ bus' = <<>>
       ELSE \E run \in UpdateRuns(channel_enable) :
                /\ result' = run.result
                /\ wire' = run.wire
                /\ bus' = run.bus

-----------------------------------------------------------------------------
(* set_channel_calibration: called by tests/led_calibration_tests.rs; its   *)
(* body is not part of lib.rs and follows the specification, section 4.2    *)

\* calibration bytes tried
CalibrationValues == {\H00, \H05, \HFF}

\* the calibration register of channel ch: the registers are contiguous, one
\* per channel, in channel order
CalibrationRegister(ch) == ChannelCalibration00 + ch

\* every execution of set_channel_calibration(ch, value) past its two checks:
\* one write, BusError on transport failure, the reply not looked at
CalibrationRuns(ch, value) ==
    LET sent == <<CalibrationRegister(ch), value>>
    IN  { LET w == write_register(sent[1], sent[2], resp)
          IN  IF w.err # "Ok"
              THEN Run(w.err, <<sent>>, <<resp>>, FALSE)
              ELSE Run("Ok", <<sent>>, <<resp>>, TRUE)
        : resp \in BusResponses(sent, <<\H00, \H00>>) }

set_channel_calibration ==
    \E ch \in ChannelArgs, value \in CalibrationValues :
        /\ was_initialized' = is_initialized
        /\ op' = "set_channel_calibration"
        /\ arg' = <<ch, value>>
        /\ UNCHANGED <<is_initialized, channel_enable>>
        /\ IF ch >= CHANNELS_PER_IC
           THEN /\ result' = "InvalidChannel"
                /\ wire' = <<>>
                /\ bus' = <<>>
           ELSE IF check_initialized(is_initialized) # "Ok"
           THEN /\ result' = check_initialized(is_initialized)
                /\ wire' = <<>>
                /\ bus' = <<>>
           ELSE \E run \in CalibrationRuns(ch, value) :
                    /\ result' = run.result
                    /\ wire' = run.wire
                    /\ bus' = run.bus

-----------------------------------------------------------------------------
(* WriteRegister::try_from *)

\* the values of a u8
Bytes == 0..255

None == [tag |-> "None", reg |-> "-"]
Some(r) == [tag |-> "Some", reg |-> r]

\* mutant of from_repr: the top bit of the byte is not compared
from_repr_masked(value) ==
    LET found == {r \in DOMAIN WriteRegister :
                     WriteRegister[r] % 128 = value % 128}
    IN  IF found = {} THEN None ELSE Some(CHOOSE r \in found : TRUE)

\* WriteRegister::from_repr, derived by strum::FromRepr: the variant whose
\* discriminant is `value`, if there is one
from_repr(value) ==
    LET found == {r \in DOMAIN WriteRegister : WriteRegister[r] = value}
    IN  IF found = {} THEN None ELSE Some(CHOOSE r \in found : TRUE)

\* <WriteRegister as TryFrom<u8>>::try_from
try_from(value) ==
    LET reg == from_repr(value)
    IN  IF reg.tag = "Some"
        THEN [tag |-> "Ok", reg |-> reg.reg]
        ELSE [tag |-> "Err", reg |-> "()"]

\* a call of WriteRegister::try_from(b); it does not involve the controller
TryFrom ==
    \E b \in Bytes :
        /\ op' = "try_from"
        /\ arg' = b
        /\ result' = try_from(b)
        /\ UNCHANGED <<is_initialized, channel_enable, was_initialized,
                       wire, bus, hw>>

NextRegisters == TryFrom

\* the register address space on its own
SpecRegisters == Init /\ [][NextRegisters]_vars

-----------------------------------------------------------------------------
(* The controller, observed at its interface and on the bus *)

\* the device registers are not followed
NoDevice == UNCHANGED hw

Next ==
    \/ init /\ NoDevice
    \/ IsInitialized /\ NoDevice
    \/ enable_channel /\ NoDevice
    \/ disable_channel /\ NoDevice
    \/ update_all_channels /\ NoDevice
    \/ set_channel_calibration /\ NoDevice

Spec == Init /\ [][Next]_vars

-----------------------------------------------------------------------------
(* The controller together with the device's channel-enable registers *)

\* the registers h after the transfers w answered by b: a transfer that
\* succeeded and addresses one of the two registers stores its value there
RECURSIVE HwAfter(_, _, _)
HwAfter(h, w, b) ==
    IF w = <<>>
    THEN h
    ELSE LET a == w[1][1]
             h2 == IF b[1].ok /\ a \in DOMAIN h
                   THEN [h EXCEPT ![a] = <<w[1][2]>>]
                   ELSE h
         IN  HwAfter(h2, Tail(w), Tail(b))

\* the device sees the transfers of the operation just performed
Device == hw' = HwAfter(hw, wire', bus')

\* channel arguments tried together with the device registers
DeviceChannelArgs == {0, 11, CHANNELS_PER_IC}

NextDevice ==
    \/ init /\ Device
    \/ IsInitialized /\ Device
    \/ enable_channel /\ arg' \in DeviceChannelArgs /\ Device
    \/ disable_channel /\ arg' \in DeviceChannelArgs /\ Device
    \/ update_all_channels /\ Device
    \/ set_channel_calibration /\ arg'[1] \in DeviceChannelArgs /\ Device

SpecDevice == Init /\ [][NextDevice]_vars

-----------------------------------------------------------------------------
(* Properties of init *)

\* the wire bytes the specification lists for init(), (address, value)
ExpectedInitWire ==
    << <<\H6C, \HA1>>, <<\H6C, \HA1>>, <<\HB5, \H9E>>, <<\HB6, \H00>>,
       <<\HB5, \H9E>>, <<\HB7, \H00>>, <<\HB5, \H9E>>, <<\HB8, \H00>>,
       <<\HB5, \H9E>>, <<\HB9, \H00>>, <<\H79, \HD6>>, <<\H7A, \H00>>,
       <<\H79, \HD6>>, <<\H7B, \H00>>, <<\H6C, \HA1>>, <<\H6B, \H3F>> >>

NumInitTransfers == Len(ExpectedInitWire)
LastHandshakeWrite == NumInitTransfers - 1

\* transfer i of the log b succeeded at the transport level
TransportOk(b, i) == b[i].ok

\* the reply to transfer i of the log b is the pair sent in transfer i - 1
Echoes(b, i) == b[i].ok /\ b[i].data = ExpectedInitWire[i - 1]

\* C1: an init() whose transfers all succeed and whose replies from the
\* second on echo the previous write sends the 16 listed transfers in order,
\* returns Ok and leaves is_initialized true, whatever was called before.
C1_InitSequence ==
    ( /\ op = "init"
      /\ \A i \in 1..Len(bus) : TransportOk(bus, i)
      /\ \A i \in 2..Len(bus) : bus[i].data = wire[i - 1] )
    => /\ wire = ExpectedInitWire
       /\ result = "Ok"
       /\ is_initialized

C1_Witness ==
    /\ op = "init"
    /\ Len(bus) = NumInitTransfers
    /\ \A i \in 1..Len(bus) : TransportOk(bus, i)
    /\ \A i \in 2..Len(bus) : bus[i].data = wire[i - 1]
    /\ result = "Ok"

\* C2: in init(), a reply to handshake write i (2 <= i <= 15) that differs
\* from the pair sent in write i-1 ends the call with CommunicationError at
\* that transfer, with is_initialized as it was; a reply that equals that
\* pair is followed by a further transfer.
C2_EchoMismatchAborts ==
    [][ op' = "init" =>
          \A i \in 2..LastHandshakeWrite :
              (Len(bus') >= i /\ TransportOk(bus', i)) =>
                  IF bus'[i].data # wire'[i - 1]
                  THEN /\ result' = "CommunicationError"
                       /\ Len(wire') = i
                       /\ wire' = SubSeq(ExpectedInitWire, 1, i)
                       /\ is_initialized' = is_initialized
                  ELSE Len(wire') > i ]_vars

C2_Witness ==
    /\ op = "init"
    /\ result = "CommunicationError"
    /\ Len(wire) = LastHandshakeWrite
    /\ ~is_initialized

\* C3 as stated: init() returns Ok iff all 16 transfers succeed and the
\* reply of every transfer 2..16 echoes the preceding transfer; otherwise
\* is_initialized is false.
C3_Original ==
    op = "init" =>
        /\ result = "Ok" <=>
              /\ Len(bus) = NumInitTransfers
              /\ \A i \in 1..NumInitTransfers : TransportOk(bus, i)
              /\ \A i \in 2..NumInitTransfers : Echoes(bus, i)
        /\ result # "Ok" => ~is_initialized

\* C3 (amended): init() returns Ok iff all 16 transfers succeed at the
\* transport level and the reply of every transfer 2..15 echoes the
\* preceding transfer, the reply to the 16th transfer being ignored; on Ok
\* is_initialized is true, otherwise it keeps the value it had.
C3_InitOkIff ==
    [][ op' = "init" =>
          /\ result' = "Ok" <=>
                /\ Len(bus') = NumInitTransfers
                /\ \A i \in 1..NumInitTransfers : TransportOk(bus', i)
                /\ \A i \in 2..LastHandshakeWrite : Echoes(bus', i)
          /\ result' = "Ok" => is_initialized'
          /\ result' # "Ok" => is_initialized' = is_initialized ]_vars

C3_Witness ==
    /\ op = "init"
    /\ result = "Ok"
    /\ ~Echoes(bus, NumInitTransfers)
    /\ is_initialized

\* C4 as stated: after any init() that returns an error is_initialized is
\* false, also on a controller an earlier init() initialized.
C4_Original ==
    (op = "init" /\ result # "Ok") => ~is_initialized

\* C4 (amended): an init() that returns an error leaves is_initialized as it
\* was before the call: false on a controller not yet initialized, still
\* true on one an earlier init() initialized.
C4_FailedInitKeepsFlag ==
    [][ (op' = "init" /\ result' # "Ok") =>
            is_initialized' = is_initialized ]_vars

C4_Witness ==
    /\ op = "init"
    /\ result = "CommunicationError"
    /\ is_initialized

\* two bus logs of init() that agree except for the reply bytes of transfer 1
SameBusButFirstReply(b1, b2) ==
    /\ b1[1].ok = b2[1].ok
    /\ \A i \in 2..Len(b1) : i <= Len(b2) => b1[i] = b2[i]

C6_PullUpAbortsAtFirst ==
    (op = "init" /\ bus[1] = [ok |-> TRUE, data |-> <<\HFF, \HFF>>])
    => /\ result # "Ok"
       /\ Len(wire) = 1
       /\ ~is_initialized

\* C7: a transport failure of any of the 16 transfers of init() ends the
\* call with BusError at that transfer: nothing is sent after it, nothing is
\* sent twice, and is_initialized is as it was.
C7_TransportFailureAborts ==
    [][ op' = "init" =>
          \A i \in 1..NumInitTransfers :
              (Len(bus') >= i /\ ~TransportOk(bus', i)) =>
                  /\ result' = "BusError"
                  /\ Len(bus') = i
                  /\ wire' = SubSeq(ExpectedInitWire, 1, i)
                  /\ is_initialized' = is_initialized ]_vars

C7_Witness ==
    /\ op = "init"
    /\ result = "BusError"
    /\ Len(wire) = NumInitTransfers
    /\ ~is_initialized

\* C8: once is_initialized is true it stays true, and it becomes true only
\* by an init() that returns Ok.
C8_FlagMonotone ==
    [][ /\ is_initialized => is_initialized'
        /\ is_initialized' # is_initialized =>
              (op' = "init" /\ result' = "Ok") ]_vars

C8_Witness ==
    /\ is_initialized
    /\ op = "init"
    /\ result = "BusError"
    /\ \E c \in Channels : channel_enable[c]

-----------------------------------------------------------------------------
(* Properties of construction and of the channel operations *)

\* C9: a freshly constructed controller is not initialized, has all 12
\* channels disabled, and construction sent nothing on the bus.
C9_FreshController ==
    op = "new" =>
        /\ ~is_initialized
        /\ DOMAIN channel_enable = 0..11
        /\ \A c \in DOMAIN channel_enable : ~channel_enable[c]
        /\ wire = <<>>

C9_Witness ==
    /\ op = "new"
    /\ Cardinality(DOMAIN channel_enable) = 12
    /\ ~is_initialized

\* C10: enable_channel(ch) and disable_channel(ch) with ch >= 12 return
\* InvalidChannel whether or not the controller is initialized, send nothing
\* and change neither channel_enable nor is_initialized.
C10_InvalidChannelFirst ==
    [][ (op' \in {"enable_channel", "disable_channel"} /\ arg' >= 12) =>
            /\ result' = "InvalidChannel"
            /\ wire' = <<>>
            /\ channel_enable' = channel_enable
            /\ is_initialized' = is_initialized ]_vars

C10_Witness ==
    /\ op = "disable_channel"
    /\ arg >= 12
    /\ result = "InvalidChannel"
    /\ ~is_initialized

\* the operations C11 calls channel operations
ChannelOps == {"enable_channel", "disable_channel", "update_all_channels"}

\* C11 as stated: a channel operation called before a successful init()
\* fails with NotInitialized, also when the channel index is 12 or greater.
C11_Original ==
    (op \in ChannelOps /\ ~was_initialized) => result = "NotInitialized"

\* C11 (amended): before a successful init(), update_all_channels() and
\* enable_channel / disable_channel with an index below 12 fail with
\* NotInitialized; enable_channel / disable_channel with an index of 12 or
\* more fail with InvalidChannel.
C11_UninitializedErrors ==
    (op \in ChannelOps /\ ~was_initialized) =>
        IF op # "update_all_channels" /\ arg >= 12
        THEN result = "InvalidChannel"
        ELSE result = "NotInitialized"

C11_Witness ==
    /\ op = "enable_channel"
    /\ arg < 12
    /\ ~was_initialized
    /\ result = "NotInitialized"

\* C12: while no init() has succeeded, enable_channel(ch) and
\* disable_channel(ch) with ch < 12 and update_all_channels() return
\* NotInitialized, send nothing and change neither channel_enable nor
\* is_initialized.
C12_GatedOnInit ==
    [][ ( /\ ~is_initialized
          /\ op' \in ChannelOps
          /\ (op' = "update_all_channels" \/ arg' < 12) ) =>
            /\ result' = "NotInitialized"
            /\ wire' = <<>>
            /\ channel_enable' = channel_enable
            /\ is_initialized' = is_initialized ]_vars

C12_Witness ==
    /\ op = "update_all_channels"
    /\ ~was_initialized
    /\ result = "NotInitialized"
    /\ wire = <<>>

\* bit k of the byte v
Bit(v, k) == (v \div 2^k) % 2 = 1

\* C13: on an initialized controller, update_all_channels() on a bus whose
\* transfers succeed sends [0x56, m0] then [0x57, m1] and returns Ok, bit k
\* of m0 (m1) being set iff k <= 5 and channel k (k + 6) is enabled;
\* channels {0,4,6,10} give [0x56,0x11] then [0x57,0x11].
C13_UpdateMasks ==
    ( /\ op = "update_all_channels"
      /\ was_initialized
      /\ \A i \in 1..Len(bus) : bus[i].ok )
    => /\ Len(wire) = 2
       /\ wire[1][1] = \H56
       /\ wire[2][1] = \H57
       /\ wire[1][2] \in 0..255
       /\ wire[2][2] \in 0..255
       /\ \A k \in 0..7 :
             /\ Bit(wire[1][2], k) <=> (k <= 5 /\ channel_enable[k])
             /\ Bit(wire[2][2], k) <=> (k <= 5 /\ channel_enable[k + 6])
       /\ result = "Ok"
       /\ {c \in 0..11 : channel_enable[c]} = {0, 4, 6, 10} =>
             wire = << <<\H56, \H11>>, <<\H57, \H11>> >>

C13_Witness ==
    /\ op = "update_all_channels"
    /\ result = "Ok"
    /\ {c \in 0..11 : channel_enable[c]} = {0, 4, 6, 10}
    /\ Len(wire) = 2

\* C15: in update_all_channels(), a transport failure of the write to 0x56
\* returns BusError with the write to 0x57 not sent; a transport failure of
\* the write to 0x57 returns BusError after the write to 0x56 was sent; in
\* both cases channel_enable and is_initialized are unchanged and no write
\* is repeated.
C15_UpdateTransportFailure ==
    [][ (op' = "update_all_channels" /\ is_initialized) =>
          /\ (Len(bus') >= 1 /\ ~bus'[1].ok) =>
                /\ result' = "BusError"
                /\ Len(wire') = 1
                /\ wire'[1][1] = \H56
                /\ channel_enable' = channel_enable
                /\ is_initialized' = is_initialized
          /\ (Len(bus') >= 2 /\ ~bus'[2].ok) =>
                /\ result' = "BusError"
                /\ bus'[1].ok
                /\ Len(wire') = 2
                /\ wire'[1][1] = \H56
                /\ wire'[2][1] = \H57
                /\ channel_enable' = channel_enable
                /\ is_initialized' = is_initialized ]_vars

C15_Witness ==
    /\ op = "update_all_channels"
    /\ result = "BusError"
    /\ Len(wire) = 2
    /\ ~bus[2].ok

\* C16: on an initialized controller, enable_channel(ch) / disable_channel(ch)
\* with ch < 12 returns Ok, sets channel_enable[ch] to true / false, leaves
\* the other entries and is_initialized as they were and sends nothing.
C16_SetChannelFrame ==
    [][ ( /\ is_initialized
          /\ op' \in {"enable_channel", "disable_channel"}
          /\ arg' < 12 ) =>
            /\ result' = "Ok"
            /\ channel_enable'[arg'] = (op' = "enable_channel")
            /\ \A c \in 0..11 :
                  c # arg' => channel_enable'[c] = channel_enable[c]
            /\ DOMAIN channel_enable' = 0..11
            /\ is_initialized' = is_initialized
            /\ wire' = <<>> ]_vars

C16_Witness ==
    /\ op = "disable_channel"
    /\ arg < 12
    /\ result = "Ok"
    /\ ~channel_enable[arg]
    /\ \E c \in 0..11 : channel_enable[c]

\* C17: on an initialized controller, a second enable_channel(ch) right
\* after an enable_channel(ch) that returned Ok returns Ok and leaves the
\* controller as the first call left it; the same holds for disable_channel.
C17_SetChannelIdempotent ==
    [][ ( /\ op \in {"enable_channel", "disable_channel"}
          /\ result = "Ok"
          /\ op' = op
          /\ arg' = arg ) =>
            /\ result' = "Ok"
            /\ channel_enable' = channel_enable
            /\ is_initialized' = is_initialized ]_vars

C17_Witness ==
    /\ op = "enable_channel"
    /\ result = "Ok"
    /\ channel_enable[arg]
    /\ was_initialized
    /\ \E c \in 0..11 : ~channel_enable[c]

\* two bus logs with the same transport success/failure pattern: where both
\* have a transfer, both succeeded or both failed
SameTransportPattern(b1, b2) ==
    \A i \in 1..Len(b1) : i <= Len(b2) => b1[i].ok = b2[i].ok

\* C21: update_all_channels() does not look at the reply bytes: on an
\* initialized controller, every execution with the same channel_enable and
\* the same transport success/failure pattern sends the same transfers and
\* returns the same result, and the result is Ok whenever both transfers
\* succeed at the transport level.
C21_UpdateIgnoresReplies ==
    (op = "update_all_channels" /\ was_initialized) =>
        /\ \A r \in UpdateRuns(channel_enable) :
              SameTransportPattern(r.bus, bus) =>
                  /\ r.wire = wire
                  /\ r.result = result
        /\ bus[1].ok =>
              \E r \in UpdateRuns(channel_enable) :
                  /\ SameTransportPattern(r.bus, bus)
                  /\ r.bus # bus
        /\ (Len(bus) = 2 /\ bus[1].ok /\ bus[2].ok) => result = "Ok"

C21_Witness ==
    /\ op = "update_all_channels"
    /\ was_initialized
    /\ result = "Ok"
    /\ bus[1].data = <<\HFF, \HFF>>
    /\ bus[2].data = <<\H00, \H00>>
    /\ bus[2].data # wire[1]
    /\ \E c \in 0..11 : channel_enable[c]

\* C22: in every reachable state where is_initialized is false, all 12
\* entries of channel_enable are false.
C22_UninitializedAllOff ==
    ~is_initialized =>
        /\ DOMAIN channel_enable = 0..11
        /\ \A c \in 0..11 : channel_enable[c] = FALSE

C22_Witness ==
    /\ ~is_initialized
    /\ op = "enable_channel"
    /\ arg \in 0..11
    /\ result = "NotInitialized"
    /\ ~channel_enable[arg]

\* C23: init() leaves channel_enable as it was, whether it succeeds or
\* fails; called on an initialized controller it sends the software-reset
\* write first all the same, and when it fails the controller stays
\* initialized.
C23_InitKeepsChannels ==
    [][ op' = "init" =>
          /\ channel_enable' = channel_enable
          /\ is_initialized =>
                /\ Len(wire') >= 1
                /\ wire'[1] = <<\H6C, \HA1>>
                /\ Len(wire') >= 2 => wire'[2] = <<\H6C, \HA1>>
                /\ is_initialized' ]_vars

C23_Witness ==
    /\ op = "init"
    /\ was_initialized
    /\ result = "CommunicationError"
    /\ is_initialized
    /\ wire[1] = <<\H6C, \HA1>>
    /\ channel_enable[0]
    /\ channel_enable[11]

-----------------------------------------------------------------------------
(* Properties of the device registers *)

\* the enable mask of the six channels base..base+5 of the array ce
GroupMask(ce, base) ==
    (IF ce[base] THEN 1 ELSE 0) + (IF ce[base + 1] THEN 2 ELSE 0)
        + (IF ce[base + 2] THEN 4 ELSE 0) + (IF ce[base + 3] THEN 8 ELSE 0)
        + (IF ce[base + 4] THEN 16 ELSE 0) + (IF ce[base + 5] THEN 32 ELSE 0)

\* C14: with the device's enable registers holding the last values written
\* to 0x56 and 0x57, after an update_all_channels() that returns Ok they
\* equal the masks of channel_enable as it was at the call; every other
\* operation, enable_channel and disable_channel included, leaves them as
\* they are, whatever it does to channel_enable.
C14_HardwareFollowsUpdate ==
    [][ /\ (op' = "update_all_channels" /\ result' = "Ok") =>
              /\ hw'[\H56] = <<GroupMask(channel_enable, 0)>>
              /\ hw'[\H57] = <<GroupMask(channel_enable, 6)>>
        /\ op' # "update_all_channels" => hw' = hw ]_vars

C14_Witness ==
    /\ op = "enable_channel"
    /\ result = "Ok"
    /\ hw[\H56] # <<>>
    /\ hw[\H57] # <<>>
    /\ \/ hw[\H56] # <<GroupMask(channel_enable, 0)>>
       \/ hw[\H57] # <<GroupMask(channel_enable, 6)>>

-----------------------------------------------------------------------------
(* Properties of set_channel_calibration *)

\* C18: on an initialized controller, set_channel_calibration(ch, value)
\* with ch < 12 sends the single transfer [0x48 + ch, value], an address in
\* 0x48..0x53, and returns Ok when the transport succeeds whatever the reply
\* (BusError when it fails); set_channel_calibration(0, 0x05) sends
\* [0x48, 0x05].
C18_CalibrationWrite ==
    ( /\ op = "set_channel_calibration"
      /\ was_initialized
      /\ arg[1] < 12 )
    => /\ wire = << <<\H48 + arg[1], arg[2]>> >>
       /\ wire[1][1] \in \H48..\H53
       /\ Len(bus) = 1
       /\ bus[1].ok => result = "Ok"
       /\ ~bus[1].ok => result = "BusError"
       /\ arg = <<0, \H05>> => wire = << <<\H48, \H05>> >>
       /\ is_initialized

C18_Witness ==
    /\ op = "set_channel_calibration"
    /\ arg = <<0, \H05>>
    /\ result = "Ok"
    /\ bus = << [ok |-> TRUE, data |-> <<0, 0>>] >>

\* C19: set_channel_calibration(ch, value) sends nothing and returns
\* InvalidChannel when ch >= 12, initialized or not, and sends nothing and
\* returns NotInitialized when ch < 12 and no init() has succeeded.
C19_CalibrationErrors ==
    op = "set_channel_calibration" =>
        /\ arg[1] >= 12 => (result = "InvalidChannel" /\ wire = <<>>)
        /\ (arg[1] < 12 /\ ~was_initialized) =>
              (result = "NotInitialized" /\ wire = <<>>)
        /\ is_initialized = was_initialized

C19_Witness ==
    /\ op = "set_channel_calibration"
    /\ arg[1] >= 12
    /\ ~was_initialized
    /\ result = "InvalidChannel"

-----------------------------------------------------------------------------
(* Properties of the register address space *)

\* the 24 register addresses the specification lists
ValidAddresses ==
    (\H48..\H53) \cup {\H56, \H57, \H6B, \H6C, \H79, \H7A, \H7B}
        \cup (\HB5..\HB9)

\* C20: for every byte b, WriteRegister::try_from(b) succeeds iff b is one
\* of the 24 register addresses, and then returns the register whose address
\* is b; for every other byte it returns its error.
C20_TryFromRoundTrip ==
    op = "try_from" =>
        /\ Cardinality(ValidAddresses) = 24
        /\ result.tag = "Ok" <=> arg \in ValidAddresses
        /\ result.tag = "Ok" =>
              /\ result.reg \in DOMAIN WriteRegister
              /\ WriteRegister[result.reg] = arg
        /\ result.tag # "Ok" => result = [tag |-> "Err", reg |-> "()"]

C20_Witness ==
    /\ op = "try_from"
    /\ arg = \HB9
    /\ result = [tag |-> "Ok", reg |-> "ReservedB9"]

====
